---- MODULE Spec2Model ----
(***************************************************************************)
(* Model of GS-PCP/ex.py: Competencia, Perfil, Carreira and Recomendador.  *)
(*                                                                         *)
(* Levels, weights and desired levels are integers; a score is kept in     *)
(* hundredths (round(x, 2) * 100) and every intermediate quotient is an    *)
(* exact fraction <<numerator, denominator>>.  An Optional[float] is a     *)
(* sequence: <<>> for None, <<x>> for the value x.  A field erro = TRUE    *)
(* marks a call that raised (ZeroDivisionError).  ret records the last     *)
(* call: its name, its argument and what it returned.  The ordering of two *)
(* scores that differ only below float precision is outside the model.     *)
(***************************************************************************)
EXTENDS Integers, Sequences, FiniteSets, TLC

VARIABLES competencias, carreiras, ret

vars == <<competencias, carreiras, ret>>

\* ---------------------------------------------------------------- bounds
MaxCompetencias == 2
MaxCarreiras == 2
MaxTop == 3

\* ---------------------------------------------------------------- inputs
Nomes == {"Python", "PYTHON", "SQL"}
Niveis == {-1, 3, 6, 9}
Categorias == {"tecnica"}

Lower(s) ==
    CASE s = "Python" -> "python"
      [] s = "PYTHON" -> "python"
      [] s = "SQL" -> "sql"
      [] s = "Git" -> "git"
      [] OTHER -> s

Competencia(nome, categoria, nivel) ==
    [nome |-> nome, categoria |-> categoria, nivel |-> nivel]

Competencias == {Competencia(n, c, v) : n \in Nomes, c \in Categorias, v \in Niveis}

Competencia_from_dict(d) == Competencia(d.nome, d.categoria, d.nivel)

RECURSIVE SeqsAte(_, _)
SeqsAte(S, n) ==
    IF n = 0 THEN {<<>>}
    ELSE LET menores == SeqsAte(S, n - 1)
         IN menores \cup {Append(s, x) : s \in {t \in menores : Len(t) = n - 1}, x \in S}

\* ---------------------------------------------------------------- Perfil
\* index of the first record whose name matches case-insensitively, 0 if none
PrimeiroIndice(comps, nome) ==
    IF \E i \in 1..Len(comps) : Lower(comps[i].nome) = Lower(nome)
    THEN CHOOSE i \in 1..Len(comps) :
            /\ Lower(comps[i].nome) = Lower(nome)
            /\ \A j \in 1..(i - 1) : Lower(comps[j].nome) # Lower(nome)
    ELSE 0

AdicionarSemBusca(comps, comp) == Append(comps, comp)

AdicionarNoFim(comps, comp) ==
    LET i == PrimeiroIndice(comps, comp.nome)
    IN IF i > 0
       THEN Append(SubSeq(comps, 1, i - 1) \o SubSeq(comps, i + 1, Len(comps)), comp)
       ELSE Append(comps, comp)

AdicionarCompetencia(comps, comp) ==
    LET i == PrimeiroIndice(comps, comp.nome)
    IN IF i > 0 THEN [comps EXCEPT ![i] = comp] ELSE Append(comps, comp)

RemoverCompetencia(comps, nome) ==
    LET i == PrimeiroIndice(comps, nome)
    IN IF i > 0
       THEN [lista |-> SubSeq(comps, 1, i - 1) \o SubSeq(comps, i + 1, Len(comps)),
             retorno |-> TRUE]
       ELSE [lista |-> comps, retorno |-> FALSE]

ObterNivel(comps, nome) ==
    LET i == PrimeiroIndice(comps, nome)
    IN IF i > 0 THEN <<comps[i].nivel>> ELSE <<>>

Perfil_from_dict(cds) == [i \in 1..Len(cds) |-> Competencia_from_dict(cds[i])]

Init ==
    /\ competencias = <<>>
    /\ carreiras = <<>>
    /\ ret = [op |-> "init", arg |-> <<>>, out |-> <<>>, erro |-> FALSE]

adicionar_competencia ==
    \E comp \in Competencias :
        /\ competencias' = AdicionarCompetencia(competencias, comp)
        /\ ret' = [op |-> "adicionar_competencia", arg |-> comp, out |-> <<>>, erro |-> FALSE]
        /\ UNCHANGED carreiras

remover_competencia ==
    \E nome \in Nomes :
        LET r == RemoverCompetencia(competencias, nome)
        IN /\ competencias' = r.lista
           /\ ret' = [op |-> "remover_competencia", arg |-> nome, out |-> r.retorno, erro |-> FALSE]
           /\ UNCHANGED carreiras

obter_nivel ==
    \E nome \in Nomes :
        /\ ret' = [op |-> "obter_nivel", arg |-> nome, out |-> ObterNivel(competencias, nome),
                  erro |-> FALSE]
        /\ UNCHANGED <<competencias, carreiras>>

from_dict ==
    \E cds \in SeqsAte(Competencias, MaxCompetencias) :
        /\ competencias' = Perfil_from_dict(cds)
        /\ ret' = [op |-> "from_dict", arg |-> <<>>, out |-> <<>>, erro |-> FALSE]
        /\ UNCHANGED carreiras

\* a Perfil edited only through adicionar_competencia / remover_competencia
NextEdicao == adicionar_competencia \/ remover_competencia \/ obter_nivel

SpecEdicao == Init /\ [][NextEdicao]_vars

\* a Perfil that may also be loaded from a serialized dict
NextPerfil == adicionar_competencia \/ remover_competencia \/ obter_nivel \/ from_dict

SpecPerfil == Init /\ [][NextPerfil]_vars

\* -------------------------------------------------------------- Carreira
Requisito(nome, peso, nivel_desejado) ==
    [nome |-> nome, peso |-> peso, nivel_desejado |-> nivel_desejado]

\* requisitos is the dict in insertion order, one entry per (case-sensitive) key
Carreira(nome, requisitos) == [nome |-> nome, requisitos |-> requisitos]

CarreirasAmostra ==
    { Carreira("Vazia", <<>>),
      Carreira("Dados", <<Requisito("python", 2, 7), Requisito("SQL", 1, 6),
                          Requisito("Git", 1, 3)>>),
      Carreira("PesoNegativo", <<Requisito("python", 2, 6), Requisito("SQL", -1, 6)>>),
      Carreira("PesosAnulam", <<Requisito("python", 1, 6), Requisito("SQL", -1, 0)>>),
      Carreira("PesoZero", <<Requisito("python", 0, 6)>>),
      Carreira("BarraZero", <<Requisito("SQL", 1, 0)>>) }

\* --------------------------------------------------------- exact fractions
Max(a, b) == IF a >= b THEN a ELSE b
Min(a, b) == IF a <= b THEN a ELSE b

\* a / b; a zero divisor is Python's ZeroDivisionError
Dividir(a, b) ==
    IF b = 0 THEN [erro |-> TRUE, q |-> <<0, 1>>]
    ELSE IF b < 0 THEN [erro |-> FALSE, q |-> <<0 - a, 0 - b>>]
    ELSE [erro |-> FALSE, q |-> <<a, b>>]

FracMaior(f, g) == f[1] * g[2] > g[1] * f[2]
FracSoma(f, g) == <<f[1] * g[2] + g[1] * f[2], f[2] * g[2]>>
FracVezes(f, k) == <<f[1] * k, f[2]>>

\* round(f * 100.0, 2) in hundredths, ties to even
Round2(f) ==
    LET n == f[1] * 10000
        d == f[2]
        q == n \div d
        r == n % d
    IN IF 2 * r < d THEN q
       ELSE IF 2 * r > d THEN q + 1
       ELSE IF q % 2 = 0 THEN q ELSE q + 1

\* stable descending sort: list.sort(key=lambda x: x[campo], reverse=True)
RECURSIVE InserirDesc(_, _, _, _)
InserirDesc(s, x, campo, k) ==
    IF k > Len(s) THEN Append(s, x)
    ELSE IF s[k][campo] < x[campo]
         THEN SubSeq(s, 1, k - 1) \o <<x>> \o SubSeq(s, k, Len(s))
         ELSE InserirDesc(s, x, campo, k + 1)

RECURSIVE OrdenarDe(_, _, _, _)
OrdenarDe(s, campo, k, acc) ==
    IF k > Len(s) THEN acc
    ELSE OrdenarDe(s, campo, k + 1, InserirDesc(acc, s[k], campo, 1))

OrdenarDesc(s, campo) == OrdenarDe(s, campo, 1, <<>>)

\* s[:k]
Fatiar(s, k) ==
    IF k >= 0 THEN SubSeq(s, 1, Min(k, Len(s)))
    ELSE SubSeq(s, 1, Max(0, Len(s) + k))

\* ----------------------------------------------------------- Recomendador
ContribSemTeto(nivel_usuario, nivel_desejado) ==
    IF nivel_usuario = <<>> THEN [erro |-> FALSE, q |-> <<0, 1>>]
    ELSE IF nivel_desejado > 0
         THEN LET d == Dividir(nivel_usuario[1], nivel_desejado)
              IN [erro |-> d.erro, q |-> IF FracMaior(<<0, 1>>, d.q) THEN <<0, 1>> ELSE d.q]
         ELSE [erro |-> FALSE, q |-> <<1, 1>>]

Contrib(nivel_usuario, nivel_desejado) ==
    IF nivel_usuario = <<>> THEN [erro |-> FALSE, q |-> <<0, 1>>]
    ELSE IF nivel_desejado > 0
         THEN LET d == Dividir(nivel_usuario[1], nivel_desejado)
                  m == IF FracMaior(<<0, 1>>, d.q) THEN <<0, 1>> ELSE d.q
              IN [erro |-> d.erro, q |-> IF FracMaior(m, <<1, 1>>) THEN <<1, 1>> ELSE m]
         ELSE [erro |-> FALSE, q |-> <<1, 1>>]

GapScore(nivel_usuario, nivel_desejado) ==
    IF nivel_usuario = <<>> THEN nivel_desejado
    ELSE Max(0, nivel_desejado - nivel_usuario[1])

NormalizarSemGuarda(score_total, peso_total) ==
    LET d == Dividir(score_total[1], score_total[2] * peso_total)
    IN [erro |-> d.erro, valor |-> Round2(d.q)]

Normalizar(score_total, peso_total) ==
    IF peso_total > 0
    THEN LET d == Dividir(score_total[1], score_total[2] * peso_total)
         IN [erro |-> d.erro, valor |-> Round2(d.q)]
    ELSE [erro |-> FALSE, valor |-> 0]

\* the inner loop over carreira.requisitos.items(), from requirement k on
RECURSIVE Acumular(_, _, _, _)
Acumular(comps, reqs, k, acc) ==
    IF k > Len(reqs) THEN acc
    ELSE LET req == reqs[k]
             nivel_usuario == ObterNivel(comps, req.nome)
             c == Contrib(nivel_usuario, req.nivel_desejado)
             gap == GapScore(nivel_usuario, req.nivel_desejado)
         IN Acumular(comps, reqs, k + 1,
                [erro |-> acc.erro \/ c.erro,
                 score_total |-> FracSoma(acc.score_total, FracVezes(c.q, req.peso)),
                 peso_total |-> acc.peso_total + req.peso,
                 gaps |-> IF gap > 0
                          THEN Append(acc.gaps, [nome |-> req.nome, gap |-> gap])
                          ELSE acc.gaps])

\* one iteration of the outer loop: the result dict of one career
Pontuar(comps, cars, i) ==
    LET acc == Acumular(comps, cars[i].requisitos, 1,
                   [erro |-> FALSE, score_total |-> <<0, 1>>, peso_total |-> 0,
                    gaps |-> <<>>])
        n == Normalizar(acc.score_total, acc.peso_total)
    IN [erro |-> acc.erro \/ n.erro, carreira |-> i, score |-> n.valor, gaps |-> acc.gaps]

\* the outer loop: resultados after careers k..Len(cars) were appended to acc
RECURSIVE PontuarTodas(_, _, _, _)
PontuarTodas(comps, cars, k, acc) ==
    IF k > Len(cars) THEN acc
    ELSE PontuarTodas(comps, cars, k + 1, Append(acc, Pontuar(comps, cars, k)))

ChaveScore == "score"

RecomendarSemOrdenar(comps, cars, top_n) ==
    LET resultados == PontuarTodas(comps, cars, 1, <<>>)
    IN [erro |-> \E i \in 1..Len(cars) : resultados[i].erro,
        out |-> Fatiar(resultados, top_n)]

Recomendar(comps, cars, top_n) ==
    LET resultados == PontuarTodas(comps, cars, 1, <<>>)
    IN [erro |-> \E i \in 1..Len(cars) : resultados[i].erro,
        out |-> Fatiar(OrdenarDesc(resultados, ChaveScore), top_n)]

adicionar_carreira ==
    \E carreira \in CarreirasAmostra :
        /\ Len(carreiras) < MaxCarreiras
        /\ carreiras' = Append(carreiras, carreira)
        /\ ret' = [op |-> "adicionar_carreira", arg |-> <<>>, out |-> <<>>, erro |-> FALSE]
        /\ UNCHANGED competencias

recomendar ==
    \E top_n \in (0 - 1)..MaxTop :
        \E r \in {Recomendar(competencias, carreiras, top_n)} :
           /\ ret' = [op |-> "recomendar", arg |-> top_n,
                      out |-> IF r.erro THEN <<>> ELSE r.out, erro |-> r.erro]
           /\ UNCHANGED <<competencias, carreiras>>

Next == adicionar_competencia \/ remover_competencia \/ adicionar_carreira \/ recomendar

Spec == Init /\ [][Next]_vars

\* `x or 0.0` on an Optional[float]: None and 0.0 both give 0
OuZero(nivel_usuario) == IF nivel_usuario = <<>> THEN 0 ELSE nivel_usuario[1]

\* "{x:.1f}" of an integer-valued float, as a number of tenths
Fmt1(x) == x * 10

ItemAcao(nome, nivel_alvo, gap) ==
    [texto |-> "Aprender/Praticar", nome |-> nome, nivel |-> Fmt1(nivel_alvo),
     gap |-> Fmt1(gap)]

ItemAlinhado == [texto |-> "Perfil alinhado", nome |-> "", nivel |-> 0, gap |-> 0]

\* the first loop of gerar_trilha, from requirement k on
RECURSIVE ColetarGapsComZero(_, _, _, _)
ColetarGapsComZero(comps, reqs, k, acc) ==
    IF k > Len(reqs) THEN acc
    ELSE LET nivel_usuario == OuZero(ObterNivel(comps, reqs[k].nome))
             gap == Max(0, reqs[k].nivel_desejado - nivel_usuario)
         IN ColetarGapsComZero(comps, reqs, k + 1,
                IF gap >= 0
                THEN Append(acc, [nome |-> reqs[k].nome, gap |-> gap,
                                  nivel_desejado |-> reqs[k].nivel_desejado])
                ELSE acc)

RECURSIVE ColetarGaps(_, _, _, _)
ColetarGaps(comps, reqs, k, acc) ==
    IF k > Len(reqs) THEN acc
    ELSE LET nivel_usuario == OuZero(ObterNivel(comps, reqs[k].nome))
             gap == Max(0, reqs[k].nivel_desejado - nivel_usuario)
         IN ColetarGaps(comps, reqs, k + 1,
                IF gap > 0
                THEN Append(acc, [nome |-> reqs[k].nome, gap |-> gap,
                                  nivel_desejado |-> reqs[k].nivel_desejado])
                ELSE acc)

ChaveGap == "gap"

\* the second loop of gerar_trilha, from element k of the slice on
RECURSIVE Formatar(_, _, _)
Formatar(gaps, k, acc) ==
    IF k > Len(gaps) THEN acc
    ELSE Formatar(gaps, k + 1,
             Append(acc, ItemAcao(gaps[k].nome, gaps[k].nivel_desejado, gaps[k].gap)))

TrilhaDe(gaps, top_k) == Formatar(Fatiar(OrdenarDesc(gaps, ChaveGap), top_k), 1, <<>>)

GerarTrilhaSemAviso(comps, carreira, top_k) ==
    TrilhaDe(ColetarGaps(comps, carreira.requisitos, 1, <<>>), top_k)

AvisoSeVazia(recomenda) == IF recomenda = <<>> THEN <<ItemAlinhado>> ELSE recomenda

GerarTrilha(comps, carreira, top_k) ==
    AvisoSeVazia(TrilhaDe(ColetarGaps(comps, carreira.requisitos, 1, <<>>), top_k))

gerar_trilha ==
    \E carreira \in CarreirasAmostra, top_k \in (0 - 1)..MaxTop :
        /\ ret' = [op |-> "gerar_trilha", arg |-> [carreira |-> carreira, top_k |-> top_k],
                   out |-> GerarTrilha(competencias, carreira, top_k), erro |-> FALSE]
        /\ UNCHANGED <<competencias, carreiras>>

NextTrilha == adicionar_competencia \/ remover_competencia \/ gerar_trilha

SpecTrilha == Init /\ [][NextTrilha]_vars

\* ================================================================ claims
Indices(s) == 1..Len(s)

Casa(comps, i, nome) == Lower(comps[i].nome) = Lower(nome)

Possui(comps, nome) == \E i \in Indices(comps) : Casa(comps, i, nome)

SemIndice(s, i) == SubSeq(s, 1, i - 1) \o SubSeq(s, i + 1, Len(s))

\* C1: a profile edited only by adicionar_competencia and remover_competencia,
\* starting empty, never holds two records whose names are equal ignoring case.
C1_NomeUnico ==
    \A i, j \in Indices(competencias) :
        i # j => Lower(competencias[i].nome) # Lower(competencias[j].nome)

C1_Witness ==
    /\ ret.op = "adicionar_competencia"
    /\ Len(competencias) = 2
    /\ ret.arg.nome = "PYTHON"
    /\ competencias[1] = ret.arg
    /\ competencias[2].nome = "SQL"

\* C2: every record a profile holds has a level within [0, 10].
C2_NivelNoDominio ==
    \A i \in Indices(competencias) :
        competencias[i].nivel >= 0 /\ competencias[i].nivel <= 10

\* C3: adicionar_competencia replaces the record of the same case-insensitive
\* name at its index, keeping the length and every other record, so that
\* obter_nivel returns the new level; with no such record it appends.
C3_Upsert ==
    [][ret'.op = "adicionar_competencia" =>
        LET comp == ret'.arg
        IN IF Possui(competencias, comp.nome)
           THEN /\ Len(competencias') = Len(competencias)
                /\ \E i \in Indices(competencias) :
                      /\ Casa(competencias, i, comp.nome)
                      /\ competencias'[i] = comp
                      /\ \A j \in Indices(competencias) :
                            j # i => competencias'[j] = competencias[j]
                /\ ObterNivel(competencias', comp.nome) = <<comp.nivel>>
           ELSE competencias' = Append(competencias, comp)]_vars

C3_Witness ==
    /\ ret.op = "adicionar_competencia"
    /\ Len(competencias) = 2
    /\ competencias[1] = ret.arg
    /\ ~Casa(competencias, 2, ret.arg.nome)

\* C4: remover_competencia returns TRUE exactly when a record matches; it then
\* removes only the first match, keeps the order of the rest, and obter_nivel
\* of that name is None afterwards; otherwise the list is unchanged.
C4_Remover ==
    [][ret'.op = "remover_competencia" =>
        LET nome == ret'.arg
        IN /\ ret'.out = Possui(competencias, nome)
           /\ ~ret'.erro
           /\ IF Possui(competencias, nome)
              THEN /\ \E i \in Indices(competencias) :
                         /\ Casa(competencias, i, nome)
                         /\ \A j \in 1..(i - 1) : ~Casa(competencias, j, nome)
                         /\ competencias' = SemIndice(competencias, i)
                   /\ ObterNivel(competencias', nome) = <<>>
              ELSE competencias' = competencias]_vars

\* C5: every result of recomendar has a score between 0 and 100.
C5_ScoreEntre0e100 ==
    ret.op = "recomendar" =>
        \A k \in Indices(ret.out) : ret.out[k].score >= 0 /\ ret.out[k].score <= 10000

\* the profile with the level of every record named nome set to v
ComNivel(comps, nome, v) ==
    [i \in Indices(comps) |->
        IF Casa(comps, i, nome) THEN [comps[i] EXCEPT !.nivel = v] ELSE comps[i]]

\* requirement j of the career of result res is met: level >= desired > 0
Atendido(res, j) ==
    LET req == carreiras[res.carreira].requisitos[j]
        u == ObterNivel(competencias, req.nome)
    IN u # <<>> /\ req.nivel_desejado > 0 /\ u[1] >= req.nivel_desejado

\* C6: a requirement held at a level >= desired > 0 contributes its full
\* weight and no gap; a still higher level leaves score and gaps unchanged.
C6_SemBonus ==
    (ret.op = "recomendar" /\ ~ret.erro) =>
        \A k \in Indices(ret.out) :
            LET res == ret.out[k]
                reqs == carreiras[res.carreira].requisitos
            IN \A j \in Indices(reqs) :
                  Atendido(res, j) =>
                     /\ LET c == Contrib(ObterNivel(competencias, reqs[j].nome),
                                         reqs[j].nivel_desejado).q
                        IN c[1] = c[2]
                     /\ \A g \in Indices(res.gaps) : res.gaps[g].nome # reqs[j].nome
                     /\ \A v \in Niveis :
                           v > ObterNivel(competencias, reqs[j].nome)[1] =>
                              LET p == Pontuar(ComNivel(competencias, reqs[j].nome, v),
                                               carreiras, res.carreira)
                              IN p.score = res.score /\ p.gaps = res.gaps

C6_Witness ==
    /\ ret.op = "recomendar"
    /\ \E k \in Indices(ret.out) :
          /\ ret.out[k].score > 0
          /\ ret.out[k].score < 10000
          /\ \E j \in Indices(carreiras[ret.out[k].carreira].requisitos) :
                /\ Atendido(ret.out[k], j)
                /\ ObterNivel(competencias,
                       carreiras[ret.out[k].carreira].requisitos[j].nome) = <<6>>

\* C7: with top_n >= 1 recomendar returns min(top_n, number of careers)
\* results in non-increasing score order, equal scores in catalog order, and
\* leaves out no career that scores higher than a returned one.
C7_Ranking ==
    (ret.op = "recomendar" /\ ~ret.erro /\ ret.arg >= 1) =>
        /\ Len(ret.out) = Min(ret.arg, Len(carreiras))
        /\ \A a \in Indices(ret.out) :
              /\ ret.out[a].carreira \in Indices(carreiras)
              /\ ret.out[a].score =
                    Pontuar(competencias, carreiras, ret.out[a].carreira).score
        /\ \A a, b \in Indices(ret.out) :
              a < b =>
                 /\ ret.out[a].score >= ret.out[b].score
                 /\ ret.out[a].score = ret.out[b].score =>
                       ret.out[a].carreira < ret.out[b].carreira
        /\ \A i \in Indices(carreiras) :
              (\A a \in Indices(ret.out) : ret.out[a].carreira # i) =>
                 \A a \in Indices(ret.out) :
                    Pontuar(competencias, carreiras, i).score <= ret.out[a].score

C7_Witness ==
    /\ ret.op = "recomendar"
    /\ ret.arg = 1
    /\ Len(carreiras) = 2
    /\ Len(ret.out) = 1
    /\ ret.out[1].carreira = 2

\* gap of a requirement in gerar_trilha: an absent skill counts as level 0
GapTrilhaDe(req) ==
    LET i == CHOOSE i \in Indices(competencias) \cup {0} :
                 IF Possui(competencias, req.nome)
                 THEN /\ i > 0
                      /\ Casa(competencias, i, req.nome)
                      /\ \A j \in 1..(i - 1) : ~Casa(competencias, j, req.nome)
                 ELSE i = 0
        nivel == IF i = 0 THEN 0 ELSE competencias[i].nivel
    IN IF req.nivel_desejado - nivel > 0 THEN req.nivel_desejado - nivel ELSE 0

ComGap(reqs) == {j \in Indices(reqs) : GapTrilhaDe(reqs[j]) > 0}

\* C8: gerar_trilha never returns an empty sequence, and when no requirement
\* has a gap it returns exactly the "Perfil alinhado" advisory.
C8_TrilhaNaoVazia ==
    ret.op = "gerar_trilha" =>
        /\ Len(ret.out) >= 1
        /\ ComGap(ret.arg.carreira.requisitos) = {} => ret.out = <<ItemAlinhado>>

C8_Witness ==
    /\ ret.op = "gerar_trilha"
    /\ ret.arg.top_k <= 0
    /\ ComGap(ret.arg.carreira.requisitos) # {}
    /\ ret.out = <<ItemAlinhado>>

\* the requirement an action item names
ReqDe(reqs, item) == CHOOSE j \in Indices(reqs) : reqs[j].nome = item.nome

\* C9: with a gap and top_k >= 1, gerar_trilha returns min(top_k, number of
\* requirements with a gap) action items and no advisory, naming only
\* requirements with a gap, by non-increasing gap, equal gaps in requirement
\* order, and omitting no requirement with a larger gap than an emitted one.
C9_TrilhaOrdenada ==
    LET reqs == ret.arg.carreira.requisitos
    IN (ret.op = "gerar_trilha" /\ ret.arg.top_k >= 1 /\ ComGap(reqs) # {}) =>
          /\ Len(ret.out) = Min(ret.arg.top_k, Cardinality(ComGap(reqs)))
          /\ \A a \in Indices(ret.out) :
                /\ ret.out[a].texto = "Aprender/Praticar"
                /\ \E j \in ComGap(reqs) : reqs[j].nome = ret.out[a].nome
                /\ ret.out[a].gap = 10 * GapTrilhaDe(reqs[ReqDe(reqs, ret.out[a])])
                /\ ret.out[a].nivel = 10 * reqs[ReqDe(reqs, ret.out[a])].nivel_desejado
          /\ \A a, b \in Indices(ret.out) :
                a < b =>
                   /\ ret.out[a].gap >= ret.out[b].gap
                   /\ ret.out[a].gap = ret.out[b].gap =>
                         ReqDe(reqs, ret.out[a]) < ReqDe(reqs, ret.out[b])
          /\ \A j \in ComGap(reqs) :
                (\A a \in Indices(ret.out) : ret.out[a].nome # reqs[j].nome) =>
                   \A a \in Indices(ret.out) : 10 * GapTrilhaDe(reqs[j]) <= ret.out[a].gap

C9_Witness ==
    /\ ret.op = "gerar_trilha"
    /\ ret.arg.top_k = 2
    /\ Cardinality(ComGap(ret.arg.carreira.requisitos)) = 3
    /\ Len(ret.out) = 2
    /\ ReqDe(ret.arg.carreira.requisitos, ret.out[1]) = 2
    /\ ret.out[2].gap = 40
    /\ ReqDe(ret.arg.carreira.requisitos, ret.out[2]) = 1

RECURSIVE SomaPesos(_, _)
SomaPesos(reqs, k) == IF k > Len(reqs) THEN 0 ELSE reqs[k].peso + SomaPesos(reqs, k + 1)

PesoNulo(i) == SomaPesos(carreiras[i].requisitos, 1) = 0

\* C10: recomendar raises no error on a catalog holding a career whose weights
\* sum to zero, and the score of every such career is 0.
C10_PesoTotalZero ==
    (ret.op = "recomendar" /\ \E i \in Indices(carreiras) : PesoNulo(i)) =>
        /\ ~ret.erro
        /\ \A k \in Indices(ret.out) : PesoNulo(ret.out[k].carreira) => ret.out[k].score = 0

C10_Witness ==
    /\ ret.op = "recomendar"
    /\ \E k \in Indices(ret.out) :
          LET reqs == carreiras[ret.out[k].carreira].requisitos
          IN /\ PesoNulo(ret.out[k].carreira)
             /\ \E j \in Indices(reqs) : reqs[j].peso > 0 /\ Atendido(ret.out[k], j)
             /\ ret.out[k].score = 0

====
